---- MODULE Spec2Model ----
(***************************************************************************)
(* HTTP-Ssak3 (src/main.py): a recursive mirror of an HTTP directory index *)
(* that downloads every file with aria2c and keeps a visited log and an    *)
(* error log on disk.                                                      *)
(*                                                                         *)
(* Strings are sequences of tokens.  A token is "/" or a piece of text     *)
(* without "/" (a path segment, a query such as "?C=N", or the scheme and  *)
(* host of an absolute URL, "https://h").  Every string operation of the   *)
(* source (startswith, endswith, rstrip, strip, split, join, urljoin) is   *)
(* computed on the token sequence.                                         *)
(***************************************************************************)
EXTENDS Naturals, Sequences, FiniteSets, TLC

\* The number of environment faults (failed index fetch, failed transfer,
\* failed makedirs, interrupt) injected in one behaviour.
MaxFaults == 3

\* A cap on the recursion depth of sync_mirror; the crawl of a finite tree
\* never reaches it.
MaxDepth == 4

---------------------------------------------------------------------------
(* Strings *)

Last(s) == s[Len(s)]

Front(s) == SubSeq(s, 1, Len(s) - 1)

\* str.startswith(prefix)
StartsWith(s, prefix) ==
    /\ Len(prefix) <= Len(s)
    /\ SubSeq(s, 1, Len(prefix)) = prefix

\* str.endswith("/")
EndsWithSlash(s) == s # <<>> /\ Last(s) = "/"

\* The recursions below are functions of the string: each call works on the
\* value of its argument.

RStripOf[s \in Seq(STRING)] ==
    IF s # <<>> /\ Last(s) = "/" THEN RStripOf[Front(s)] ELSE s

\* str.rstrip("/")
RStrip(s) == RStripOf[s]

LStripOf[s \in Seq(STRING)] ==
    IF s # <<>> /\ Head(s) = "/" THEN LStripOf[Tail(s)] ELSE s

\* str.lstrip("/")
LStrip(s) == LStripOf[s]

\* str.strip("/")
Strip(s) == LStrip(RStrip(s))

SplitOf[s \in Seq(STRING)] ==
    IF s = <<>> THEN <<"">>
    ELSE IF Head(s) = "/" THEN <<"">> \o SplitOf[Tail(s)]
    ELSE IF Len(s) = 1 THEN <<s[1]>>
    ELSE <<s[1]>> \o SplitOf[Tail(Tail(s))]

\* str.split("/"): the segments between the slashes, "" for an empty one.
Split(s) == SplitOf[s]

JoinOf[segs \in Seq(STRING)] ==
    LET tok(x) == IF x = "" THEN <<>> ELSE <<x>>
    IN  IF segs = <<>> THEN <<>>
        ELSE IF Len(segs) = 1 THEN tok(segs[1])
        ELSE tok(segs[1]) \o <<"/">> \o JoinOf[Tail(segs)]

\* "/".join(segments)
Join(segs) == JoinOf[segs]

\* filter(None, segments)
FilterNonEmpty(segs) == SelectSeq(segs, LAMBDA x : x # "")

---------------------------------------------------------------------------
(* URLs *)

\* Tokens that carry a scheme and a host: urlparse(t).scheme is not empty.
Origins == {"https://h", "http://ext"}

\* Tokens that start with "?".
QueryTokens == {"?C=N"}

\* urlparse(href).scheme
HasScheme(href) == href # <<>> /\ href[1] \in Origins

ResolveDotsOf[segs \in Seq(STRING), acc \in Seq(STRING)] ==
    IF segs = <<>> THEN acc
    ELSE IF Head(segs) = ".."
         THEN ResolveDotsOf[Tail(segs), IF acc = <<>> THEN acc ELSE Front(acc)]
    ELSE IF Head(segs) = "."
         THEN ResolveDotsOf[Tail(segs), acc]
    ELSE ResolveDotsOf[Tail(segs), Append(acc, Head(segs))]

\* The dot-segment loop of urllib.parse.urljoin.
ResolveDots(segs, acc) == ResolveDotsOf[segs, acc]

\* urljoin: the segments of the base path without its last one.
BaseParts[bsplit \in Seq(STRING)] ==
    IF Last(bsplit) # "" THEN Front(bsplit) ELSE bsplit

\* urljoin: the first and the last segment, and the non-empty ones between.
Merged[all \in Seq(STRING)] ==
    <<all[1]>> \o FilterNonEmpty(SubSeq(all, 2, Len(all) - 1)) \o <<Last(all)>>

\* urljoin: the segments of the joined path before the dots are resolved.
Segments[base \in Seq(STRING), url \in Seq(STRING)] ==
    IF url[1] = "/" THEN Split(url)
    ELSE Merged[BaseParts[Split(Tail(base))] \o Split(url)]

\* urljoin: the resolved segments; a path that ends in a dot segment keeps
\* its trailing slash.
Resolved[segments \in Seq(STRING)] ==
    IF Last(segments) \in {".", ".."}
    THEN Append(ResolveDots(segments, <<>>), "")
    ELSE ResolveDots(segments, <<>>)

\* urljoin: the path of the result.
PathOf[joined \in Seq(STRING)] ==
    IF joined = <<>> THEN <<"/">>
    ELSE IF joined[1] # "/" THEN <<"/">> \o joined
    ELSE joined

\* urllib.parse.urljoin(base, url) for an http(s) base.
UrlJoin(base, url) ==
    IF url = <<>> THEN base
    ELSE IF url[1] \in Origins THEN url
    ELSE IF url[1] \in QueryTokens THEN base \o url
    ELSE <<base[1]>> \o PathOf[Join(Resolved[Segments[base, url]])]

\* target_base_url: the base URL with a trailing slash enforced.
TargetBaseUrl(base_url) ==
    IF EndsWithSlash(base_url) THEN base_url ELSE base_url \o <<"/">>

\* os.path.join(a, b)
OsPathJoin(a, b) ==
    IF b # <<>> /\ Head(b) = "/" THEN b
    ELSE IF a = <<>> \/ Last(a) = "/" THEN a \o b
    ELSE a \o <<"/">> \o b

\* file_url.endswith(".metalink")
IsMetalink(file_url) == file_url # <<>> /\ Last(file_url) \in {"m.metalink"}

---------------------------------------------------------------------------
(* The remote server and the command line *)

Host == "https://h"

\* --base-url, given with or without its trailing slash.
CliBaseUrls == { <<Host, "/", "base", "/">>, <<Host, "/", "base">> }

\* --local-dir
LocalRoot == <<"/", "mnt">>

BaseDir == <<Host, "/", "base", "/">>
DirA    == BaseDir \o <<"a", "/">>
DirB    == BaseDir \o <<"b", "/">>
FileX   == BaseDir \o <<"x.iso">>
FileY   == DirA \o <<"y.iso">>
FileM   == DirB \o <<"m.metalink">>

\* The index pages of the server: for each directory URL, the href of every
\* anchor of its page, in document order.
Remote ==
    (BaseDir :> << <<"?C=N">>,                       \* sort control
                   <<"..", "/">>,                    \* parent directory
                   <<"a", "/">>,
                   <<"x.iso">>,
                   <<"x.iso">>,                      \* listed twice
                   <<"/", "other", "/", "z.iso">>,   \* outside the base
                   <<"b", "/">>,
                   <<".", "/">>,                     \* the page itself
                   <<Host, "/", "base", "/", "w.iso">> >>)  \* absolute URL
    @@
    (DirA    :> << <<"y.iso">>,
                   <<"/", "base", "/", "b", "/">>,   \* sibling directory
                   <<"/", "base", "/">> >>)          \* ancestor
    @@
    (DirB    :> << <<"/", "base", "/", "x.iso">>,    \* a file of the parent
                   <<"/", "base", "/", "a", "/">>,   \* back to the sibling
                   <<"m.metalink">> >>)

---------------------------------------------------------------------------
(* The state files *)

\* A state file on disk.  kind: "missing" (no such path), "ioerror" (the
\* path exists and can be neither read nor written), "badjson" (not JSON),
\* "notdict" (JSON whose top level is not an object), "nokey" (an object
\* without the expected key), "ok".  urls: the URL array of an "ok" file,
\* a set for the visited log (the loader makes a set of it) and a sequence
\* for the error log.
VFile(kind, urls) == [kind |-> kind, urls |-> urls]

Range(seq) == { seq[i] : i \in 1..Len(seq) }

\* A loader that starts every run from an empty Visited Set.
LoadVisitedUrlsForgets(f) == [raised |-> FALSE, urls |-> {}]

\* load_visited_urls: the set returned, or the exception that escapes.
LoadVisitedUrls(f) ==
    IF f.kind = "missing" THEN [raised |-> FALSE, urls |-> {}]
    ELSE IF f.kind \in {"ioerror", "badjson"}
         THEN [raised |-> FALSE, urls |-> {}]
    ELSE IF f.kind = "notdict" THEN [raised |-> TRUE, urls |-> {}]
    ELSE IF f.kind = "nokey" THEN [raised |-> FALSE, urls |-> {}]
    ELSE [raised |-> FALSE, urls |-> f.urls]

\* aiofiles.open(path, "wb"): the file once it is opened and before anything
\* is written to it.  An empty file is not JSON.
OpenForWriting(f) == IF f.kind = "ioerror" THEN f ELSE VFile("badjson", {})

\* A save that writes an empty set.
SaveVisitedUrlsEmpty(visited, f) ==
    IF f.kind = "ioerror" THEN f ELSE VFile("ok", {})

\* save_visited_urls: the file after the call.
SaveVisitedUrls(visited, f) ==
    IF f.kind = "ioerror" THEN f ELSE VFile("ok", visited)

\* A recorder that starts from an empty list whatever the file holds.
SaveErrorUrlReplaces(error_url, f) ==
    IF f.kind = "ioerror" THEN f ELSE VFile("ok", <<error_url>>)

\* A recorder without the membership test before the append.
SaveErrorUrlAppends(error_url, f) ==
    LET urls == IF f.kind = "ok" THEN f.urls ELSE <<>>
    IN  IF f.kind = "ioerror" THEN f
        ELSE VFile("ok", Append(urls, error_url))

\* save_error_url: the file after the call.
SaveErrorUrl(error_url, f) ==
    LET urls == IF f.kind = "ok" THEN f.urls ELSE <<>>
        new  == IF error_url \in Range(urls) THEN urls
                ELSE Append(urls, error_url)
    IN  IF f.kind = "ioerror" THEN f ELSE VFile("ok", new)

\* The state files a run can find: a first run, corrupt files, a visited log
\* holding a JSON array, paths that cannot be opened, the files of an
\* earlier session, a hand-edited visited log naming a directory, and an
\* object without the key.
InitFiles ==
    { <<VFile("missing", {}), VFile("missing", <<>>)>>,
      <<VFile("badjson", {}), VFile("badjson", <<>>)>>,
      <<VFile("notdict", {}), VFile("ok", <<>>)>>,
      <<VFile("ioerror", {}), VFile("ioerror", <<>>)>>,
      <<VFile("ok", {FileX}), VFile("ok", <<FileY>>)>>,
      <<VFile("ok", {RStrip(DirB)}), VFile("missing", <<>>)>>,
      <<VFile("nokey", {}), VFile("missing", <<>>)>> }

---------------------------------------------------------------------------
(* The transfer strategies *)

\* What one run of the aria2c subprocess can give: an exception while it is
\* started or awaited, or an exit code and the text of its standard output.
Aria2Runs ==
    { [raised |-> r, rc |-> c, out |-> o] :
        r \in BOOLEAN, c \in {0, 1},
        o \in {"download completed", "already been completed", ""} }

\* A classification that takes exit code 0 for a success only when the
\* output carries one of the two markers.
Aria2ResultNeedsMarker(run) ==
    /\ ~run.raised
    /\ run.rc = 0
    /\ run.out \in {"download completed", "already been completed"}

\* download_file_with_aria2, the segmented strategy: the value returned.
Aria2Result(run) ==
    IF run.raised THEN FALSE
    ELSE IF run.rc = 0
         THEN IF run.out = "download completed" THEN TRUE
              ELSE IF run.out = "already been completed" THEN TRUE
              ELSE TRUE
         ELSE FALSE

\* What one direct fetch can give: the HTTP status and whether writing the
\* body raised.
HttpRuns == { [status |-> st, ioerr |-> e] : st \in {200, 404}, e \in BOOLEAN }

\* download_file_with_aiohttp, the direct strategy: the value returned.
AiohttpResult(run) == run.status < 400 /\ ~run.ioerr

\* A routing that sends every file URL to the segmented strategy.
StrategyAlwaysAria2(file_url) == "aria2"

\* The strategy download_file_with_aria2 routes a file URL to.
Strategy(file_url) == IF IsMetalink(file_url) THEN "aiohttp" ELSE "aria2"

---------------------------------------------------------------------------
(* The crawler's decisions about one link *)

\* The hrefs the link loop drops before it resolves them.
Dropped(href) ==
    \/ href = <<>>
    \/ href[1] \in QueryTokens
    \/ StartsWith(href, <<"..", "/">>)
    \/ HasScheme(href)

\* A scope check that compares the scheme and host only.
InScopeSameHost(next_url, base) == next_url[1] = base[1]

\* next_url.startswith(base_sync_url)
InScope(next_url, base) == StartsWith(next_url, base)

\* What the body of the link loop does with one href: "drop" (filtered),
\* "scope" (outside the base), "self", "dir" (recurse), "dirseen",
\* "file" (dispatch a transfer), "fileseen".
Classify(current_url, href, base, vdirs, vurls) ==
    LET next_url == UrlJoin(current_url, href)
    IN  IF Dropped(href) THEN [act |-> "drop", url |-> href]
        ELSE IF ~InScope(next_url, base) THEN [act |-> "scope", url |-> next_url]
        ELSE IF next_url = current_url THEN [act |-> "self", url |-> next_url]
        ELSE IF EndsWithSlash(href)
             THEN IF RStrip(next_url) \notin vdirs
                  THEN [act |-> "dir", url |-> next_url]
                  ELSE [act |-> "dirseen", url |-> next_url]
        ELSE IF next_url \notin vurls
             THEN [act |-> "file", url |-> next_url]
             ELSE [act |-> "fileseen", url |-> next_url]

\* A crawler that does not add a transferred file to the Visited Set.
AfterTransferForgets(visited, file_url, result) == visited

\* A crawler that adds the file whatever the transfer returned.
AfterTransferAlways(visited, file_url, result) == visited \cup {file_url}

\* The Visited Set after a transfer of file_url returned result.
AfterTransfer(visited, file_url, result) ==
    IF result THEN visited \cup {file_url} ELSE visited

\* A crawler that does not record the directories it enters.
AfterEnterForgets(vdirs, normalized_url) == vdirs

\* The Visited-Directories Set after sync_mirror entered normalized_url.
AfterEnter(vdirs, normalized_url) == vdirs \cup {normalized_url}

---------------------------------------------------------------------------
(* The state *)

VARIABLES
    phase,                \* "start", "crawl" or "exited"
    stack,                \* the sync_mirror calls in progress, innermost last
    visited_urls,         \* the Visited Set in memory
    visited_directories,  \* the Visited-Directories Set of this run
    base_sync_url,        \* the base scope
    vfile,                \* the visited log on disk
    efile,                \* the error log on disk
    exit,                 \* how the run ended and its exit status
    loaded,               \* what load_visited_urls returned in this run
    log,                  \* what this run did, in order
    prev,                 \* what the previous run left
    faults                \* the environment faults injected so far

vars == <<phase, stack, visited_urls, visited_directories, base_sync_url,
          vfile, efile, exit, loaded, log, prev, faults>>

\* No strategy has returned to the call.
NoRet == [result |-> FALSE, run |-> [raised |-> FALSE, rc |-> 0, out |-> "none"]]

\* One sync_mirror call: its arguments, the links of its page, the index of
\* the link the loop is at, where the call stands: "enter", "fetch" (the GET
\* of the index is awaited), "loop", "transfer" (the download is awaited),
\* "returned" (download_file_with_aria2 has returned), "saving" (the visited
\* log is open for writing), and, while it stands at "returned", the value
\* the strategy returned and what it had got from the subprocess or the
\* server.
Frame(url, local, pc) ==
    [url |-> url, local |-> local, links |-> <<>>, i |-> 1, pc |-> pc,
     ret |-> NoRet]

\* One entry of the log.
Ev(op, url, ok, local) == [op |-> op, url |-> url, ok |-> ok, local |-> local]

NoExit == [how |-> "none", status |-> 0]

NoPrev == [how |-> "none", clean |-> FALSE, visited |-> {}, pending |-> {}]

Top == stack[Len(stack)]

SetTop(f) == [stack EXCEPT ![Len(stack)] = f]

Init ==
    /\ phase = "start"
    /\ stack = <<>>
    /\ visited_urls = {}
    /\ visited_directories = {}
    /\ base_sync_url = <<>>
    /\ \E fs \in InitFiles : vfile = fs[1] /\ efile = fs[2]
    /\ exit = NoExit
    /\ loaded = {}
    /\ log = <<>>
    /\ prev = NoPrev
    /\ faults = 0

---------------------------------------------------------------------------
(* The Run Controller: async_main *)

Transfers == {"aria2", "aiohttp"}

\* The file URLs whose transfer failed in this run and that are still not in
\* the Visited Set.
Pending ==
    { log[k].url : k \in { j \in 1..Len(log) :
                             log[j].op \in Transfers /\ ~log[j].ok } }
      \ visited_urls

\* No index fetch and no transfer of this run failed.
NothingFailed ==
    \A k \in 1..Len(log) :
        log[k].op \in Transfers \cup {"fetch"} => log[k].ok

\* The run ends: the finally clause saves the Visited Set and the process
\* exits with the given status.
Exits(how, status) ==
    /\ phase' = "exited"
    /\ stack' = <<>>
    /\ exit' = [how |-> how, status |-> status]
    /\ vfile' = SaveVisitedUrls(visited_urls, vfile)

\* check_aria2c_installed fails: sys.exit(1) before anything is loaded.
HelperMissing ==
    /\ phase = "start"
    /\ phase' = "exited"
    /\ exit' = [how |-> "nohelper", status |-> 1]
    /\ UNCHANGED <<stack, visited_urls, visited_directories, base_sync_url,
                   vfile, efile, loaded, log, prev, faults>>

\* load_visited_urls raises: the exception leaves async_main, which has not
\* entered its try statement yet.
LoadRaises ==
    /\ phase = "start"
    /\ LoadVisitedUrls(vfile).raised
    /\ phase' = "exited"
    /\ exit' = [how |-> "loadraise", status |-> 1]
    /\ UNCHANGED <<stack, visited_urls, visited_directories, base_sync_url,
                   vfile, efile, loaded, log, prev, faults>>

\* The Visited Set is loaded, the base URL gets its trailing slash and
\* sync_mirror is called on it.
StartCrawl ==
    /\ phase = "start"
    /\ ~LoadVisitedUrls(vfile).raised
    /\ \E base_url \in CliBaseUrls :
         /\ base_sync_url' = TargetBaseUrl(base_url)
         /\ stack' = <<Frame(TargetBaseUrl(base_url), LocalRoot, "enter")>>
    /\ visited_urls' = LoadVisitedUrls(vfile).urls
    /\ loaded' = LoadVisitedUrls(vfile).urls
    /\ visited_directories' = {}
    /\ phase' = "crawl"
    /\ UNCHANGED <<vfile, efile, exit, log, prev, faults>>

\* sync_mirror returned to async_main.
Finish ==
    /\ phase = "crawl"
    /\ stack = <<>>
    /\ Exits("done", 0)
    /\ UNCHANGED <<visited_urls, visited_directories, base_sync_url, efile,
                   loaded, log, prev, faults>>

Awaiting ==
    phase = "crawl" /\ stack # <<>> /\ Top.pc \in {"fetch", "transfer", "saving"}

\* SIGINT raised as KeyboardInterrupt inside the coroutine: the handler of
\* async_main saves and calls sys.exit(0), and the finally clause saves.
InterruptHandled ==
    /\ Awaiting
    /\ faults < MaxFaults
    /\ faults' = faults + 1
    /\ Exits("interrupt", 0)
    /\ UNCHANGED <<visited_urls, visited_directories, base_sync_url, efile,
                   loaded, log, prev>>

\* SIGINT taken by asyncio.run, which cancels the task: the await raises
\* CancelledError, which neither except clause of async_main matches, the
\* finally clause saves, and asyncio.run raises KeyboardInterrupt into
\* main, whose command-line wrapper exits with status 1.
InterruptCancelled ==
    /\ Awaiting
    /\ faults < MaxFaults
    /\ faults' = faults + 1
    /\ Exits("cancelled", 1)
    /\ UNCHANGED <<visited_urls, visited_directories, base_sync_url, efile,
                   loaded, log, prev>>

\* The process is killed, or the machine stops: nothing more is written.
Crash ==
    /\ phase = "crawl"
    /\ faults < MaxFaults
    /\ faults' = faults + 1
    /\ phase' = "exited"
    /\ stack' = <<>>
    /\ exit' = [how |-> "crash", status |-> 137]
    /\ UNCHANGED <<visited_urls, visited_directories, base_sync_url, vfile,
                   efile, loaded, log, prev>>

\* The program is started again on the same state files.
NextRun ==
    /\ phase = "exited"
    /\ phase' = "start"
    /\ prev' = [how |-> exit.how,
                clean |-> exit.how = "done" /\ NothingFailed,
                visited |-> visited_urls,
                pending |-> Pending]
    /\ exit' = NoExit
    /\ stack' = <<>>
    /\ visited_urls' = {}
    /\ visited_directories' = {}
    /\ base_sync_url' = <<>>
    /\ loaded' = {}
    /\ log' = <<>>
    /\ UNCHANGED <<vfile, efile, faults>>

---------------------------------------------------------------------------
(* The Directory Crawler: sync_mirror *)

InCall(pc) == phase = "crawl" /\ stack # <<>> /\ Top.pc = pc

\* The call starts: the cycle guard, the Visited Set guard, and makedirs.
Enter ==
    /\ InCall("enter")
    /\ LET n == RStrip(Top.url)
       IN  IF n \in visited_directories
           THEN /\ stack' = Front(stack)
                /\ UNCHANGED <<visited_directories, log>>
           ELSE /\ visited_directories' = AfterEnter(visited_directories, n)
                /\ IF n \in visited_urls
                   THEN /\ stack' = Front(stack)
                        /\ log' = Append(log, Ev("dirvisited", Top.url, FALSE,
                                                 Top.local))
                   ELSE /\ stack' = SetTop([Top EXCEPT !.pc = "fetch"])
                        /\ UNCHANGED log
    /\ UNCHANGED <<phase, visited_urls, base_sync_url, vfile, efile, exit,
                   loaded, prev, faults>>

\* os.makedirs raises OSError: nothing in sync_mirror catches it, every call
\* in progress is left, and async_main's "except Exception" saves and calls
\* sys.exit(1).
MakedirsFails ==
    /\ InCall("enter")
    /\ RStrip(Top.url) \notin visited_directories
    /\ RStrip(Top.url) \notin visited_urls
    /\ faults < MaxFaults
    /\ faults' = faults + 1
    /\ visited_directories' = AfterEnter(visited_directories, RStrip(Top.url))
    /\ log' = Append(log, Ev("makedirs", Top.url, FALSE, Top.local))
    /\ Exits("exception", 1)
    /\ UNCHANGED <<visited_urls, base_sync_url, efile, loaded, prev>>

\* The GET of the index page succeeds and the page is parsed.
FetchOk ==
    /\ InCall("fetch")
    /\ Top.url \in DOMAIN Remote
    /\ log' = Append(log, Ev("fetch", Top.url, TRUE, Top.local))
    /\ stack' = IF Remote[Top.url] = <<>> THEN Front(stack)
                ELSE SetTop([Top EXCEPT !.pc = "loop", !.i = 1,
                                        !.links = Remote[Top.url]])
    /\ UNCHANGED <<phase, visited_urls, visited_directories, base_sync_url,
                   vfile, efile, exit, loaded, prev, faults>>

\* A crawler that records the directory URL in the error log when the GET
\* fails.
FetchFailsRecords ==
    /\ InCall("fetch")
    /\ faults < MaxFaults
    /\ faults' = faults + 1
    /\ log' = Append(log, Ev("fetch", Top.url, FALSE, Top.local))
    /\ efile' = SaveErrorUrl(Top.url, efile)
    /\ stack' = Front(stack)
    /\ UNCHANGED <<phase, visited_urls, visited_directories, base_sync_url,
                   vfile, exit, loaded, prev>>

\* The GET fails (network error, timeout, HTTP status): the call returns.
FetchFails ==
    /\ InCall("fetch")
    /\ faults < MaxFaults
    /\ faults' = faults + 1
    /\ log' = Append(log, Ev("fetch", Top.url, FALSE, Top.local))
    /\ stack' = Front(stack)
    /\ UNCHANGED <<phase, visited_urls, visited_directories, base_sync_url,
                   vfile, efile, exit, loaded, prev>>

\* The decision of the loop about the link it is at.
Here ==
    Classify(Top.url, Top.links[Top.i], base_sync_url, visited_directories,
             visited_urls)

AtLink == InCall("loop") /\ Top.i <= Len(Top.links)

\* A loop that returns where it should continue.
SkipLinkReturns ==
    /\ AtLink
    /\ Here.act \in {"drop", "scope", "self", "dirseen", "fileseen"}
    /\ log' = Append(log, Ev(Here.act, Here.url, FALSE, Top.local))
    /\ stack' = Front(stack)
    /\ UNCHANGED <<phase, visited_urls, visited_directories, base_sync_url,
                   vfile, efile, exit, loaded, prev, faults>>

\* A loop that passes over a link and the one after it.
SkipLinkJumps ==
    /\ AtLink
    /\ Here.act \in {"drop", "scope", "self", "dirseen", "fileseen"}
    /\ log' = Append(log, Ev(Here.act, Here.url, FALSE, Top.local))
    /\ stack' = SetTop([Top EXCEPT !.i = Top.i + 2])
    /\ UNCHANGED <<phase, visited_urls, visited_directories, base_sync_url,
                   vfile, efile, exit, loaded, prev, faults>>

\* A link the loop passes over.
SkipLink ==
    /\ AtLink
    /\ Here.act \in {"drop", "scope", "self", "dirseen", "fileseen"}
    /\ log' = Append(log, Ev(Here.act, Here.url, FALSE, Top.local))
    /\ stack' = SetTop([Top EXCEPT !.i = Top.i + 1])
    /\ UNCHANGED <<phase, visited_urls, visited_directories, base_sync_url,
                   vfile, efile, exit, loaded, prev, faults>>

\* A sub-directory link: sync_mirror is called on it.
EnterSubdir ==
    /\ AtLink
    /\ Here.act = "dir"
    /\ Len(stack) < MaxDepth
    /\ stack' = Append(SetTop([Top EXCEPT !.i = Top.i + 1]),
                       Frame(Here.url,
                             OsPathJoin(Top.local, Strip(Top.links[Top.i])),
                             "enter"))
    /\ UNCHANGED <<phase, visited_urls, visited_directories, base_sync_url,
                   vfile, efile, exit, loaded, log, prev, faults>>

\* A file link not in the Visited Set: download_file_with_aria2 is called.
StartTransfer ==
    /\ AtLink
    /\ Here.act = "file"
    /\ stack' = SetTop([Top EXCEPT !.pc = "transfer"])
    /\ UNCHANGED <<phase, visited_urls, visited_directories, base_sync_url,
                   vfile, efile, exit, loaded, log, prev, faults>>

\* A strategy that adds the URL to the Visited Set itself.
TransferReturnsAdds(file_url, run, result) ==
    /\ result \/ faults < MaxFaults
    /\ faults' = IF result THEN faults ELSE faults + 1
    /\ log' = Append(log, Ev(Strategy(file_url), file_url, result, Top.local))
    /\ efile' = IF result THEN efile ELSE SaveErrorUrl(file_url, efile)
    /\ visited_urls' = visited_urls \cup {file_url}
    /\ stack' = SetTop([Top EXCEPT !.pc = "returned",
                                   !.ret = [result |-> result, run |-> run]])
    /\ UNCHANGED <<phase, visited_directories, base_sync_url, vfile, exit,
                   loaded, prev>>

\* The strategy called for file_url got run and returns result to sync_mirror:
\* a failure is recorded in the error log by the strategy, which touches
\* neither the Visited Set nor the visited log.
TransferReturns(file_url, run, result) ==
    /\ result \/ faults < MaxFaults
    /\ faults' = IF result THEN faults ELSE faults + 1
    /\ log' = Append(log, Ev(Strategy(file_url), file_url, result, Top.local))
    /\ efile' = IF result THEN efile ELSE SaveErrorUrl(file_url, efile)
    /\ stack' = SetTop([Top EXCEPT !.pc = "returned",
                                   !.ret = [result |-> result, run |-> run]])
    /\ UNCHANGED <<phase, visited_urls, visited_directories, base_sync_url,
                   vfile, exit, loaded, prev>>

\* The segmented strategy ends.
Aria2Ends ==
    /\ InCall("transfer")
    /\ LET file_url == UrlJoin(Top.url, Top.links[Top.i])
       IN  /\ Strategy(file_url) = "aria2"
           /\ \E run \in Aria2Runs :
                TransferReturns(file_url, run, Aria2Result(run))

\* The direct strategy ends.
AiohttpEnds ==
    /\ InCall("transfer")
    /\ LET file_url == UrlJoin(Top.url, Top.links[Top.i])
       IN  /\ Strategy(file_url) = "aiohttp"
           /\ \E run \in HttpRuns :
                TransferReturns(file_url, run, AiohttpResult(run))

\* "if result:" a success is added to the Visited Set and save_visited_urls
\* opens the visited log for writing; after a failure, or when the log cannot
\* be opened, the loop goes on.
AfterDownload ==
    /\ InCall("returned")
    /\ LET file_url == UrlJoin(Top.url, Top.links[Top.i])
           saving   == Top.ret.result /\ vfile.kind # "ioerror"
       IN  /\ visited_urls' = AfterTransfer(visited_urls, file_url,
                                            Top.ret.result)
           /\ vfile' = IF Top.ret.result THEN OpenForWriting(vfile) ELSE vfile
           /\ stack' = IF saving
                       THEN SetTop([Top EXCEPT !.pc = "saving", !.ret = NoRet])
                       ELSE SetTop([Top EXCEPT !.pc = "loop", !.i = Top.i + 1,
                                               !.ret = NoRet])
    /\ UNCHANGED <<phase, visited_directories, base_sync_url, efile, exit,
                   loaded, log, prev, faults>>

\* save_visited_urls writes the whole Visited Set and the loop goes on.
SaveWritten ==
    /\ InCall("saving")
    /\ vfile' = SaveVisitedUrls(visited_urls, vfile)
    /\ stack' = SetTop([Top EXCEPT !.pc = "loop", !.i = Top.i + 1])
    /\ UNCHANGED <<phase, visited_urls, visited_directories, base_sync_url,
                   efile, exit, loaded, log, prev, faults>>

\* The loop is over: the call returns.
Return ==
    /\ InCall("loop")
    /\ Top.i > Len(Top.links)
    /\ stack' = Front(stack)
    /\ UNCHANGED <<phase, visited_urls, visited_directories, base_sync_url,
                   vfile, efile, exit, loaded, log, prev, faults>>

---------------------------------------------------------------------------
(* The specification *)

\* The steps of one run of the program.
Program ==
    \/ HelperMissing
    \/ LoadRaises
    \/ StartCrawl
    \/ Enter
    \/ MakedirsFails
    \/ FetchOk
    \/ FetchFails
    \/ SkipLink
    \/ EnterSubdir
    \/ StartTransfer
    \/ Aria2Ends
    \/ AiohttpEnds
    \/ AfterDownload
    \/ SaveWritten
    \/ Return
    \/ Finish

Next ==
    \/ Program
    \/ InterruptHandled
    \/ InterruptCancelled
    \/ Crash
    \/ NextRun

Spec == Init /\ [][Next]_vars

\* A started run keeps running: the event loop resumes the coroutine after
\* every await.
FairSpec == Spec /\ WF_vars(Program)

---------------------------------------------------------------------------
(* What the log of a run shows *)

Idx(ops) == { k \in 1..Len(log) : log[k].op \in ops }

\* The file URLs whose transfer returned success in this run.
Succeeded == { log[k].url : k \in { j \in Idx(Transfers) : log[j].ok } }

\* The URLs a transfer was dispatched for in this run.
Attempted == { log[k].url : k \in Idx(Transfers) }

\* The directory URLs whose index page was requested in this run.
Fetched == { log[k].url : k \in Idx({"fetch"}) }

Interrupts == {"interrupt", "cancelled"}

---------------------------------------------------------------------------
(* C1 *)

\* C1, as claimed: after a run that completed, a run on the unchanged tree
\* and the same visited log dispatches no transfer.
C1_Original == prev.how = "done" => Attempted = {}

\* C1, amended: after a run that completed with every index fetch and every
\* transfer succeeding and a visited log that could be written, a run on the
\* unchanged tree and the same state files dispatches no transfer.
C1_Idempotent ==
    (prev.how = "done" /\ prev.clean /\ vfile.kind = "ok") => Attempted = {}

\* The second run of such a pair has ended, having met files and passed over
\* them.
C1_Witness ==
    /\ prev.how = "done" /\ prev.clean /\ vfile.kind = "ok"
    /\ phase = "exited" /\ exit.how = "done"
    /\ \E k \in Idx({"fileseen"}) : log[k].url \in prev.visited

---------------------------------------------------------------------------
(* C2 *)

\* C2, as claimed: no file URL is dispatched twice in a run, whatever the
\* first dispatch returned.
C2_Original ==
    \A j, k \in Idx(Transfers) : log[j].url = log[k].url => j = k

\* C2, amended: a file URL is dispatched again in a run only when every
\* earlier dispatch of it in that run returned failure; after a success it
\* is never dispatched again in the run.
C2_NoRepeatAfterSuccess ==
    \A j, k \in Idx(Transfers) :
        (j < k /\ log[j].url = log[k].url) => ~log[j].ok

\* A file transferred with success is met again in the same run and passed
\* over.
C2_Witness ==
    \E j \in Idx(Transfers), k \in Idx({"fileseen"}) :
        j < k /\ log[j].ok /\ log[j].url = log[k].url

---------------------------------------------------------------------------
(* C3 *)

\* The visited log holds exactly the loaded URLs and the URLs transferred
\* with success in this run.
SavedExactly == vfile = VFile("ok", loaded \cup Succeeded)

\* This run dispatches only files outside the set the previous run held
\* when it ended.
OnlyTheRemainder == Attempted \cap prev.visited = {}

---------------------------------------------------------------------------
(* C4 *)

\* The URLs an index fetch or a transfer is in progress or finished for.
Issued ==
    Fetched \cup Attempted
    \cup { stack[n].url : n \in { m \in 1..Len(stack) :
                                    stack[m].pc # "enter" } }
    \cup { UrlJoin(stack[n].url, stack[n].links[stack[n].i]) :
             n \in { m \in 1..Len(stack) : stack[m].pc = "transfer" } }

\* C4: every URL an index fetch or a transfer was issued for starts with the
\* base URL, trailing slash included.
C4_ScopeContainment ==
    \A u \in Issued :
        /\ Len(u) >= Len(BaseDir)
        /\ \A n \in 1..Len(BaseDir) : u[n] = BaseDir[n]

\* A link outside the base was met and passed over, and a file inside it was
\* transferred.
C4_Witness ==
    /\ \E k \in Idx({"scope"}) : log[k].url = <<Host, "/", "other", "/", "z.iso">>
    /\ Succeeded # {}

---------------------------------------------------------------------------
(* C5 *)

\* No normalized directory URL has its index requested twice in a run, and
\* the depth cap never stops a recursive call.
FetchedOnce ==
    /\ \A j, k \in Idx({"fetch"}) :
         RStrip(log[j].url) = RStrip(log[k].url) => j = k
    /\ (AtLink /\ Here.act = "dir") => Len(stack) < MaxDepth

\* C5: the index of a normalized directory URL is requested at most once per
\* run, whether or not the request succeeds, and every crawl ends, on a tree
\* whose pages link to themselves, to an ancestor and to each other.
C5_CycleSafe == []FetchedOnce /\ (phase = "crawl" ~> phase = "exited")

\* A run has ended after it met the link to an ancestor and the link back to
\* a sibling that was being crawled.
C5_Witness ==
    /\ phase = "exited" /\ exit.how = "done"
    /\ \E k \in Idx({"dirseen"}) : log[k].url = BaseDir
    /\ \E k \in Idx({"dirseen"}) : log[k].url = DirA

---------------------------------------------------------------------------
(* C6 *)

\* The links of the page of directory d that the loop neither drops, nor
\* finds outside the base, nor finds to be the page itself.
Followed(d) ==
    { i \in 1..Len(Remote[d]) :
        /\ ~Dropped(Remote[d][i])
        /\ StartsWith(UrlJoin(d, Remote[d][i]), BaseDir)
        /\ UrlJoin(d, Remote[d][i]) # d }

\* The file URLs listed by the pages fetched with success in this run.
Listed ==
    UNION { { UrlJoin(log[k].url, Remote[log[k].url][i]) :
                i \in { n \in Followed(log[k].url) :
                          ~EndsWithSlash(Remote[log[k].url][n]) } } :
            k \in { j \in Idx({"fetch"}) : log[j].ok } }

\* The directory URLs linked by the pages fetched with success in this run.
Linked ==
    UNION { { UrlJoin(log[k].url, Remote[log[k].url][i]) :
                i \in { n \in Followed(log[k].url) :
                          EndsWithSlash(Remote[log[k].url][n]) } } :
            k \in { j \in Idx({"fetch"}) : log[j].ok } }

---------------------------------------------------------------------------
(* C7 *)

NoDuplicates(seq) == \A i, j \in 1..Len(seq) : seq[i] = seq[j] => i = j

\* C7: the error log never holds a URL twice.
C7_ErrorsOnce == efile.kind = "ok" => NoDuplicates(efile.urls)

\* save_error_url was called twice with the same URL in this run, and the
\* error log holds it.
C7_Witness ==
    /\ efile.kind = "ok"
    /\ \E j, k \in Idx(Transfers) :
         /\ j < k /\ log[j].url = log[k].url /\ ~log[j].ok /\ ~log[k].ok
         /\ log[j].url \in Range(efile.urls)

---------------------------------------------------------------------------
(* C8 *)

\* C8, as claimed: load_visited_urls never raises, and whenever the visited
\* log is not a well-formed file the crawl starts with an empty Visited Set.
C8_LoadTolerant ==
    /\ exit.how # "loadraise"
    /\ (phase = "crawl" /\ log = <<>> /\ vfile.kind # "ok") => loaded = {}

---------------------------------------------------------------------------
(* C9 *)

\* C9, as claimed, for a visited log that can be written: a started crawl
\* that ends has the Visited Set in the visited log, an interrupt ends with
\* exit status 0, and an unhandled exception with a status other than 0.
C9_ExitPaths ==
    (phase = "exited" /\ vfile.kind # "ioerror"
        /\ exit.how \in {"done", "exception"} \cup Interrupts) =>
        /\ vfile = VFile("ok", visited_urls)
        /\ exit.how = "done" => exit.status = 0
        /\ exit.how \in Interrupts => exit.status = 0
        /\ exit.how = "exception" => exit.status # 0

---------------------------------------------------------------------------
(* C10 *)

\* C10: a URL whose transfer failed is in the Visited Set only if another
\* transfer of it succeeded, and a URL left failed by the previous run is
\* not in the loaded Visited Set, so that this run passes over it only
\* after having transferred it.
C10_FailedStayRetryable ==
    /\ \A k \in Idx(Transfers) :
         (~log[k].ok /\ log[k].url \in visited_urls) => log[k].url \in Succeeded
    /\ \A u \in prev.pending :
         /\ u \notin loaded
         /\ \A k \in Idx({"fileseen"}) :
              log[k].url = u =>
                \E j \in Idx(Transfers) : j < k /\ log[j].url = u /\ log[j].ok

\* A file left failed by the previous run is dispatched again in this one.
C10_Witness ==
    \E k \in Idx(Transfers) : log[k].url \in prev.pending

---------------------------------------------------------------------------
(* C11 *)

\* The URL is in the error log, or the error log cannot be written.
Recorded(url) ==
    efile.kind = "ioerror" \/ (efile.kind = "ok" /\ url \in Range(efile.urls))

\* The file URL of the link the call at the top of the stack is at.
TopFile == UrlJoin(Top.url, Top.links[Top.i])

\* C11: when the segmented strategy has returned, it returned success if the
\* subprocess ended with exit code 0, whatever its output, and it returned
\* failure, the URL being recorded in the error log, if the exit code was not
\* 0 or an exception was raised while the subprocess was run.
C11_Aria2Outcome ==
    (InCall("returned") /\ Strategy(TopFile) = "aria2") =>
        LET run == Top.ret.run
        IN  /\ (~run.raised /\ run.rc = 0) => Top.ret.result
            /\ (run.raised \/ run.rc # 0) =>
                 (~Top.ret.result /\ Recorded(TopFile))

\* The subprocess ended with exit code 0 and neither marker in its output,
\* after an earlier transfer of the run had failed and been recorded.
C11_Witness ==
    /\ InCall("returned") /\ Strategy(TopFile) = "aria2"
    /\ Top.ret.run = [raised |-> FALSE, rc |-> 0, out |-> ""]
    /\ Top.ret.result
    /\ \E k \in Idx({"aria2"}) :
         ~log[k].ok /\ efile.kind = "ok" /\ log[k].url \in Range(efile.urls)

---------------------------------------------------------------------------
(* C12 *)

\* C12: every transfer of a file URL that ends in ".metalink" was made by the
\* direct strategy and every other transfer by the segmented strategy,
\* whatever the subprocess or the server answered.
C12_Routing ==
    \A k \in Idx(Transfers) :
        log[k].op = IF IsMetalink(log[k].url) THEN "aiohttp" ELSE "aria2"

\* A run has transferred the metalink file directly and another file with
\* the segmented strategy.
C12_Witness ==
    /\ \E k \in Idx({"aiohttp"}) : log[k].url = FileM
    /\ \E k \in Idx({"aria2"}) : log[k].url = FileX

---------------------------------------------------------------------------
(* C13 *)

\* The URLs the crawl of this run has added to the Visited Set.
Added == visited_urls \ loaded

\* Every added URL is a file URL whose transfer returned success in this
\* run: none ends in "/" and none is a directory the crawl entered.
OnlyTransferredFiles ==
    /\ Added \subseteq Succeeded
    /\ \A u \in Added :
         ~EndsWithSlash(u) /\ u \notin visited_directories /\ u \notin Fetched

\* Within a run no step removes a URL from the Visited Set, and the step in
\* which a strategy returns leaves the Visited Set as it was.
GrowsOutsideDispatcher ==
    /\ phase' # "start" => visited_urls \subseteq visited_urls'
    /\ (InCall("transfer") /\ phase' = "crawl" /\ stack'[Len(stack')].pc = "returned")
          => visited_urls' = visited_urls

\* C13: within a run the Visited Set only grows, every URL in it that was not
\* loaded at start is a file URL whose transfer returned success, a strategy
\* never changes it, and no directory URL is added by the crawl.
C13_VisitedGrowth == []OnlyTransferredFiles /\ [][GrowsOutsideDispatcher]_vars

\* A run that loaded a Visited Set has added a file to it after a transfer
\* of another file had failed.
C13_Witness ==
    /\ loaded # {} /\ Added # {}
    /\ \E k \in Idx(Transfers) : ~log[k].ok /\ log[k].url \notin visited_urls

---------------------------------------------------------------------------
(* C14 *)

\* The Visited Set a run started now would load from the visited log.
Stored == LoadVisitedUrls(vfile).urls

\* The URLs this run holds as done, in memory or as a transfer that returned
\* success, which a run started now would not find in the visited log.
Unsaved == (visited_urls \cup Succeeded) \ Stored

\* C14, as claimed, for a visited log that can be written: while an index
\* page is fetched or a transfer is in progress the visited log holds the
\* Visited Set in memory; at any point of the crawl at most one file is done
\* and not in the visited log; and the run after a hard crash misses at most
\* one file of the Visited Set the crashed run held.
C14_WriteThrough ==
    vfile.kind # "ioerror" =>
        /\ (phase = "crawl" /\ stack # <<>> /\ Top.pc \in {"fetch", "transfer"})
              => Stored = visited_urls
        /\ phase = "crawl" => Cardinality(Unsaved) <= 1
        /\ (prev.how = "crash" /\ phase = "crawl")
              => Cardinality(prev.visited \ loaded) <= 1

---------------------------------------------------------------------------
(* C15 *)

\* C15, as claimed: every transfer that failed returned false with its URL
\* recorded in the error log, and no failure of one file or one directory
\* (index fetch, local directory creation, transfer) ends the run: a run
\* that ended by itself ended normally.
C15_FailureIsolation ==
    /\ \A k \in Idx(Transfers) : ~log[k].ok => Recorded(log[k].url)
    /\ \A k \in Idx({"fetch", "makedirs"} \cup Transfers) :
         (~log[k].ok /\ phase = "exited") =>
             exit.how \in {"done", "crash"} \cup Interrupts

---------------------------------------------------------------------------
(* C16 *)

\* The step in which the GET of an index page fails.
FetchFailedStep ==
    /\ Len(log') = Len(log) + 1
    /\ log'[Len(log')].op = "fetch"
    /\ ~log'[Len(log')].ok

\* The step ends the call and nothing else: the error log, the Visited Set
\* and the visited log are as before and the caller goes on.
BranchEndsOnly ==
    /\ efile' = efile
    /\ visited_urls' = visited_urls
    /\ vfile' = vfile
    /\ phase' = "crawl"
    /\ stack' = Front(stack)

\* No call of sync_mirror on a directory whose GET failed in this run is in
\* progress: none is there to reach the link loop and dispatch a transfer.
FailedBranchesGone ==
    \A k \in Idx({"fetch"}) :
        ~log[k].ok => \A n \in 1..Len(stack) : stack[n].url # log[k].url

\* C16: when the GET of a directory index fails, the call on that directory
\* ends without a transfer dispatched by it, the error log, the Visited Set
\* and the visited log are unchanged, and the crawl goes on in the caller.
C16_FetchFailure ==
    []FailedBranchesGone /\ [][FetchFailedStep => BranchEndsOnly]_vars

\* The index of a/ could not be fetched and the crawl went on to transfer
\* x.iso, the next link of the parent's page.
C16_Witness ==
    \E j \in Idx({"fetch"}), k \in Idx(Transfers) :
        /\ j < k
        /\ log[j].url = DirA /\ ~log[j].ok
        /\ log[k].url = FileX /\ log[k].ok

---------------------------------------------------------------------------
(* C17 *)

\* Every call but the innermost stands in its link loop, waiting for the
\* call it made on the sub-directory link before the one it is at: only the
\* innermost call can have a fetch or a transfer in progress.
OneInFlight ==
    \A n \in 1..(Len(stack) - 1) :
        /\ stack[n].pc = "loop"
        /\ stack[n].i > 1
        /\ UrlJoin(stack[n].url, stack[n].links[stack[n].i - 1]) = stack[n + 1].url

\* A step leaves the waiting calls as they are, and moves the innermost call
\* to the next link of its page or leaves it at the same link.
InPageOrder ==
    /\ \A n \in 1..(Len(stack) - 1) : n <= Len(stack') => stack'[n] = stack[n]
    /\ (stack # <<>> /\ Len(stack') >= Len(stack)) =>
          /\ stack'[Len(stack)].url = Top.url
          /\ stack'[Len(stack)].i \in {Top.i, Top.i + 1}

\* C17: at most one index fetch or transfer is in progress at any time, the
\* links of a page are processed one after the other in the order of the
\* page, and the call on a sub-directory link ends before the next link of
\* the page is processed.
C17_DepthFirst == []OneInFlight /\ [][InPageOrder]_vars

\* y.iso of a/ was transferred, then the last link of the page of a/ was
\* processed, and only then x.iso, the link after a/ in the parent's page.
C17_Witness ==
    \E j \in Idx(Transfers), m \in Idx({"dirseen"}), k \in Idx(Transfers) :
        /\ j < m /\ m < k
        /\ log[j].url = FileY
        /\ log[m].url = BaseDir
        /\ log[k].url = FileX

---------------------------------------------------------------------------
(* C18 *)

\* The hrefs the claim has dropped: the empty one, a query, a parent
\* traversal, and an absolute URL outside the base scope.
ClaimedDropped(href) ==
    \/ href = <<>>
    \/ href[1] \in QueryTokens
    \/ StartsWith(href, <<"..", "/">>)
    \/ (HasScheme(href) /\ ~StartsWith(href, base_sync_url))

\* C18, as claimed: the link loop drops an href before resolving it only if
\* it is empty, starts with "?", starts with "../" or is an absolute URL
\* outside the base; an absolute URL inside the base is resolved and
\* classified.
C18_LinkFilter ==
    \A k \in Idx({"drop"}) : ClaimedDropped(log[k].url)

---------------------------------------------------------------------------
(* C19 *)

\* The local directory that corresponds to a remote directory URL inside the
\* base: the local root joined with the path of the URL below the base.
LocalOf(dir_url) ==
    LET rel == Strip(SubSeq(dir_url, Len(base_sync_url) + 1, Len(dir_url)))
    IN  IF rel = <<>> THEN LocalRoot ELSE OsPathJoin(LocalRoot, rel)

\* C19, as claimed: every directory the crawl enters gets the local path that
\* corresponds to its URL, and every file is transferred into the local
\* directory that corresponds to the remote directory of its URL.
C19_LocalMirrorsRemote ==
    /\ \A k \in Idx({"fetch"}) : log[k].local = LocalOf(log[k].url)
    /\ \A k \in Idx(Transfers) : log[k].local = LocalOf(Front(log[k].url))

---------------------------------------------------------------------------
(* C20 *)

\* A step on a readable error log keeps its URLs, in order, and adds at most
\* one at the end.
KeepsAndAppends ==
    efile.kind = "ok" =>
        /\ efile'.kind = "ok"
        /\ Len(efile'.urls) \in {Len(efile.urls), Len(efile.urls) + 1}
        /\ SubSeq(efile'.urls, 1, Len(efile.urls)) = efile.urls

\* A URL of the Visited Set whose transfer failed in this run is still in
\* the error log, if the error log can be written.
FailedThenDoneInBoth ==
    \A k \in Idx(Transfers) :
        (~log[k].ok /\ log[k].url \in visited_urls /\ efile.kind # "ioerror")
            => (efile.kind = "ok" /\ log[k].url \in Range(efile.urls))

====
